---------------------------- MODULE Spec2Model ----------------------------
(***************************************************************************)
(* ShadowSimulator (src/main.py): the shadow of a vertical pole over one   *)
(* day and the irradiance outside and inside it.                           *)
(*                                                                         *)
(* Two specifications:                                                     *)
(*   Spec       the driver (the __main__ block): configuration, sampler,   *)
(*              shadow, projection, irradiance, reports and plot, with the *)
(*              sampler unrolled call by call;                             *)
(*   SpecStages the three pure stages applied to arbitrary bounded sample  *)
(*              sequences.                                                 *)
(*                                                                         *)
(* Numbers.  Python floats are modelled as integers in fixed units:        *)
(*   angles       1/UnitsPerDeg degree, rounded to MantissaBits            *)
(*                significant bits the way binary floating point rounds    *)
(*                (round to nearest, ties to even);                        *)
(*   lengths      decimetres;                                              *)
(*   sin, cos     multiples of 1/TrigScale;                                *)
(*   irradiance   multiples of 1/TrigScale W/m^2.                          *)
(* None is the empty tuple and a present value v is <<v>>.                 *)
(***************************************************************************)
EXTENDS Integers, Sequences, FiniteSets, TLC

(***************************************************************************)
(* Bounds of the model.                                                    *)
(***************************************************************************)
\* Significant bits of the modelled binary floating point (IEEE double: 53).
MantissaBits == 9
\* Longest sample sequence handed to the pure stages in SpecStages.
MaxLen == 2

(***************************************************************************)
(* Program constants.                                                      *)
(***************************************************************************)
EClearDefault == 1361
SunriseHour == 6
SunsetHour == 18
StepMinutes == 10

TrigScale == 10^4
\* Lengths are in decimetres.
UnitsPerMeter == 10^1

\* The angle unit is the spacing of floats in [128, 256) degrees, so that
\* -180 has a neighbour one unit below it, as it has in double precision.
UnitsPerDeg == 2^(MantissaBits - 8)
Deg(d) == d * UnitsPerDeg

None == << >>
Some(v) == << v >>

Abs(n) == IF n < 0 THEN -n ELSE n

(***************************************************************************)
(* Binary floating point: round to MantissaBits significant bits, nearest, *)
(* ties to the even mantissa.                                              *)
(***************************************************************************)
RoundFloat(n) ==
    LET a == Abs(n)
        e == CHOOSE k \in 0..16 :
                 /\ a < 2^(MantissaBits + k)
                 /\ (k = 0 \/ a >= 2^(MantissaBits + k - 1))
        q == 2^e
        lo == (a \div q) * q
        rem == a - lo
        r == IF 2 * rem < q THEN lo
             ELSE IF 2 * rem > q THEN lo + q
             ELSE IF (lo \div q) % 2 = 0 THEN lo ELSE lo + q
    IN  IF n < 0 THEN -r ELSE r

FloatAdd(a, b) == RoundFloat(a + b)

\* C fmod: exact, with the sign of the dividend.
Fmod(v, w) == IF v < 0 THEN -(Abs(v) % Abs(w)) ELSE v % Abs(w)

\* Python's float %: fmod, then the divisor added when the signs differ
\* (a float addition, hence rounded).
PyFloatMod(v, w) ==
    LET mod == Fmod(v, w)
    IN  IF mod # 0 /\ ((w < 0) # (mod < 0)) THEN FloatAdd(mod, w) ELSE mod

(***************************************************************************)
(* math.sin(math.radians(a)) and math.cos(math.radians(a)): a table of     *)
(* sin at whole degrees, linear between them, times TrigScale.             *)
(***************************************************************************)
SinTable ==
    << 0, 175, 349, 523, 698, 872, 1045, 1219, 1392, 1564,
       1736, 1908, 2079, 2250, 2419, 2588, 2756, 2924, 3090, 3256,
       3420, 3584, 3746, 3907, 4067, 4226, 4384, 4540, 4695, 4848,
       5000, 5150, 5299, 5446, 5592, 5736, 5878, 6018, 6157, 6293,
       6428, 6561, 6691, 6820, 6947, 7071, 7193, 7314, 7431, 7547,
       7660, 7771, 7880, 7986, 8090, 8192, 8290, 8387, 8480, 8572,
       8660, 8746, 8829, 8910, 8988, 9063, 9135, 9205, 9272, 9336,
       9397, 9455, 9511, 9563, 9613, 9659, 9703, 9744, 9781, 9816,
       9848, 9877, 9903, 9925, 9945, 9962, 9976, 9986, 9994, 9998,
       10000 >>

\* 0 <= u <= Deg(90)
SinQuadrant(u) ==
    LET d == u \div UnitsPerDeg
        f == u % UnitsPerDeg
    IN  IF f = 0 THEN SinTable[d + 1]
        ELSE SinTable[d + 1] + ((SinTable[d + 2] - SinTable[d + 1]) * f) \div UnitsPerDeg

SinDeg(a) ==
    LET r == a % Deg(360)
    IN  IF r <= Deg(90) THEN SinQuadrant(r)
        ELSE IF r <= Deg(180) THEN SinQuadrant(Deg(180) - r)
        ELSE IF r <= Deg(270) THEN -SinQuadrant(r - Deg(180))
        ELSE -SinQuadrant(Deg(360) - r)

CosDeg(a) == SinDeg(a + Deg(90))


(***************************************************************************)
(* State.                                                                  *)
(***************************************************************************)
VARIABLES
    config_file,        \* what open() and json.load() find at the config path
    eph,                \* the ephemeris collaborator (pysolar) of this run
    site_name, latitude, longitude, date, pole_height, pole_width,  \* globals
    pc,                 \* position of the driver
    result,             \* what initialize_configuration returned
    exit_code,          \* -1 while the process runs
    uncaught,           \* an exception reached the top of the driver
    sun_data, shadow_data, shadow_coordinates, irradiance,
    E_clear,            \* calculate_irradiance's second parameter
    stages,             \* the pipeline stages invoked so far
    plotted,            \* the arguments of the plot_shadow_pattern calls
    report_lines,       \* per-record lines printed by the driver
    date_obj, current_time, sunset_time, sun_positions, altitude, azimuth,
                        \* locals of calculate_sun_positions
    alt_calls, az_calls,        \* get_altitude, get_azimuth calls made
    eph_failed, parse_failed,   \* the collaborator, strptime raised
    samples_before_failure      \* len(sun_positions) when the handler ran

config_vars == << site_name, latitude, longitude, date, pole_height, pole_width >>
sampler_vars == << date_obj, current_time, sunset_time, sun_positions, altitude,
                   azimuth, alt_calls, az_calls, eph_failed, parse_failed,
                   samples_before_failure >>
driver_vars == << pc, result, exit_code, uncaught, stages, plotted, report_lines >>
data_vars == << sun_data, shadow_data, shadow_coordinates, irradiance, E_clear >>
env_vars == << config_file, eph >>
vars == << env_vars, config_vars, sampler_vars, driver_vars, data_vars >>

(***************************************************************************)
(* calculate_irradiance                                                    *)
(***************************************************************************)
\* Mutant: the horizon test written >= instead of >.
IrradianceEntryAtHorizon(entry, E) ==
    IF entry.altitude >= 0
    THEN [time |-> entry.time,
          E_outside_shadow |-> E * SinDeg(entry.altitude) + (15 * E * TrigScale) \div 100,
          E_inside_shadow |-> (15 * E * TrigScale) \div 100]
    ELSE [time |-> entry.time, E_outside_shadow |-> 0, E_inside_shadow |-> 0]

\* Mutant: the shadow is given the direct beam instead of the diffuse part.
IrradianceEntryDirectInside(entry, E) ==
    IF entry.altitude > 0
    THEN [time |-> entry.time,
          E_outside_shadow |-> E * SinDeg(entry.altitude) + (15 * E * TrigScale) \div 100,
          E_inside_shadow |-> E * SinDeg(entry.altitude)]
    ELSE [time |-> entry.time, E_outside_shadow |-> 0, E_inside_shadow |-> 0]

\* One iteration of the loop of calculate_irradiance.
IrradianceEntry(entry, E) ==
    IF entry.altitude > 0
    THEN LET E_direct == E * SinDeg(entry.altitude)
             E_diffuse == (15 * E * TrigScale) \div 100
         IN  [time |-> entry.time,
              E_outside_shadow |-> E_direct + E_diffuse,
              E_inside_shadow |-> E_diffuse]
    ELSE [time |-> entry.time, E_outside_shadow |-> 0, E_inside_shadow |-> 0]

calculate_irradiance(data, E) ==
    [i \in 1..Len(data) |-> IrradianceEntry(data[i], E)]

(***************************************************************************)
(* calculate_shadow                                                        *)
(***************************************************************************)
\* One iteration of the loop of calculate_shadow.  pole_height / tan(x) is
\* computed as pole_height * cos(x) / sin(x); sin(x) > 0 for 0 < x < 180.
ShadowEntry(entry, height) ==
    IF entry.altitude > 0
    THEN [time |-> entry.time,
          shadow_length |->
              Some((height * CosDeg(entry.altitude)) \div SinDeg(entry.altitude)),
          shadow_direction |->
              Some(PyFloatMod(FloatAdd(entry.azimuth, Deg(180)), Deg(360)))]
    ELSE [time |-> entry.time, shadow_length |-> None, shadow_direction |-> None]

\* Mutant: the samples without a shadow are skipped instead of recorded.
calculate_shadow_skipping(data, height) ==
    LET lit == SelectSeq(data, LAMBDA e : e.altitude > 0)
    IN  [i \in 1..Len(lit) |-> ShadowEntry(lit[i], height)]

calculate_shadow(data, height) ==
    [i \in 1..Len(data) |-> ShadowEntry(data[i], height)]

(***************************************************************************)
(* calculate_shadow_coordinates                                            *)
(***************************************************************************)
\* Mutant: the no-shadow branch keeps the pole base at (0, 0).
CoordinateEntryBaseKept(entry) ==
    IF entry.shadow_length # None
    THEN [time |-> entry.time, x1 |-> Some(0), y1 |-> Some(0),
          x2 |-> Some((entry.shadow_length[1] * CosDeg(entry.shadow_direction[1]))
                          \div TrigScale),
          y2 |-> Some((entry.shadow_length[1] * SinDeg(entry.shadow_direction[1]))
                          \div TrigScale)]
    ELSE [time |-> entry.time, x1 |-> Some(0), y1 |-> Some(0),
          x2 |-> None, y2 |-> None]

\* One iteration of the loop of calculate_shadow_coordinates.
CoordinateEntry(entry) ==
    IF entry.shadow_length # None
    THEN LET length == entry.shadow_length[1]
             direction == entry.shadow_direction[1]
         IN  [time |-> entry.time, x1 |-> Some(0), y1 |-> Some(0),
              x2 |-> Some((length * CosDeg(direction)) \div TrigScale),
              y2 |-> Some((length * SinDeg(direction)) \div TrigScale)]
    ELSE [time |-> entry.time, x1 |-> None, y1 |-> None,
          x2 |-> None, y2 |-> None]

calculate_shadow_coordinates(data) ==
    [i \in 1..Len(data) |-> CoordinateEntry(data[i])]

(***************************************************************************)
(* initialize_configuration                                                *)
(***************************************************************************)
\* dict.get(key, default) on the loaded JSON object.
ConfigGet(config, key, default) ==
    IF key \in DOMAIN config THEN config[key] ELSE default

\* The contents the config path may have.  A date is the tuple of the
\* numbers its text holds: <<y, m, d>> for "y-m-d".
ConfigFiles ==
    { [kind |-> "missing", json |-> << >>],
      [kind |-> "invalid_json", json |-> << >>],
      [kind |-> "not_an_object", json |-> << >>],
      [kind |-> "object", json |-> << >>],
      [kind |-> "object",
       json |-> [site_name |-> "Pole A", latitude |-> 0, longitude |-> 0,
                 date |-> <<2024, 2, 29>>, pole_height |-> 0, pole_width |-> 0]],
      [kind |-> "object",
       json |-> [date |-> <<9999, 12, 31>>,
                 pole_height |-> -2 * UnitsPerMeter, pole_width |-> -5]],
      [kind |-> "object",
       json |-> [date |-> <<2025, 2, 30>>, pole_height |-> 3 * UnitsPerMeter]],
      [kind |-> "object", json |-> [date |-> <<20250101>>]] }

\* open() and json.load() succeed and the value has a .get method.
ConfigLoads(file) == file.kind = "object"

InitializeConfiguration ==
    /\ pc = "init"
    /\ IF ConfigLoads(config_file)
       THEN /\ site_name' = ConfigGet(config_file.json, "site_name", "Khavada")
            /\ latitude' = ConfigGet(config_file.json, "latitude", 238443)
            /\ longitude' = ConfigGet(config_file.json, "longitude", 697317)
            /\ date' = ConfigGet(config_file.json, "date", <<2025, 1, 1>>)
            /\ pole_height' = ConfigGet(config_file.json, "pole_height", 10 * UnitsPerMeter)
            /\ pole_width' = ConfigGet(config_file.json, "pole_width", 5)
            /\ result' = TRUE
       ELSE /\ result' = FALSE
            /\ UNCHANGED config_vars
    /\ pc' = "check_result"
    /\ UNCHANGED << env_vars, sampler_vars, data_vars, exit_code, uncaught, stages,
                    plotted, report_lines >>

\* if not result: exit(1)
CheckResult ==
    /\ pc = "check_result"
    /\ IF result
       THEN pc' = "sampler_parse" /\ exit_code' = exit_code
       ELSE pc' = "exit" /\ exit_code' = 1
    /\ UNCHANGED << env_vars, config_vars, sampler_vars, data_vars, result, uncaught,
                    stages, plotted, report_lines >>

(***************************************************************************)
(* calculate_sun_positions                                                 *)
(***************************************************************************)
IsLeap(y) == (y % 4 = 0 /\ y % 100 # 0) \/ y % 400 = 0

DaysInMonth(y, m) ==
    IF m = 2 THEN (IF IsLeap(y) THEN 29 ELSE 28)
    ELSE IF m \in {4, 6, 9, 11} THEN 30 ELSE 31

\* datetime.strptime(text, "%Y-%m-%d") returns instead of raising.
StrptimeOk(text) ==
    /\ Len(text) = 3
    /\ text[1] \in 1..9999
    /\ text[2] \in 1..12
    /\ text[3] \in 1..DaysInMonth(text[1], text[2])

\* strftime("%Y-%m-%d %H:%M:%S UTC") of the instant t minutes after the
\* midnight of day (t stays below 24 * 60 in the sampled window).
Strftime(day, t) ==
    [date |-> day, hh |-> t \div 60, mm |-> t % 60, ss |-> 0]

\* The collaborator's altitude curves: peak degrees at 12:00 UTC, falling
\* drop degrees per ten minutes away from it; and its azimuth curves, from
\* az_base degrees at 06:00 UTC, 2.5 degrees per ten minutes.
EphemerisProfiles ==
    { [peak |-> p[1], drop |-> p[2], az_base |-> b] :
        p \in { <<80, 1>>, <<36, 1>>, <<-10, 0>> }, b \in { 90, -300 } }

get_altitude(e, lat, lon, t) ==
    LET a == Deg(e.peak) - Deg(e.drop) * (Abs(t - 12 * 60) \div 10)
    IN  IF a < Deg(-90) THEN Deg(-90) ELSE IF a > Deg(90) THEN Deg(90) ELSE a

get_azimuth(e, lat, lon, t) ==
    RoundFloat(Deg(e.az_base) + (5 * UnitsPerDeg * ((t - SunriseHour * 60) \div 10)) \div 2)

\* Mutant: the window's end is excluded.
LoopConditionExclusive(t, sunset) == t < sunset

\* while current_time <= sunset_time
LoopCondition(t, sunset) == t <= sunset

\* Mutant: the handler returns what was collected so far.
ExceptionResultPartial(positions) == positions

\* except Exception: return []
ExceptionResult(positions) == << >>

\* The try block up to the loop: strptime, the window, the empty list.
ParseDate ==
    /\ pc = "sampler_parse"
    /\ stages' = stages \cup {"sampler"}
    /\ IF StrptimeOk(date)
       THEN /\ date_obj' = Some(date)
            /\ current_time' = SunriseHour * 60
            /\ sunset_time' = SunsetHour * 60
            /\ sun_positions' = << >>
            /\ pc' = IF LoopCondition(SunriseHour * 60, SunsetHour * 60)
                     THEN "sampler_altitude" ELSE "sampler_return"
            /\ UNCHANGED << parse_failed, samples_before_failure, sun_data >>
       ELSE /\ parse_failed' = TRUE
            /\ samples_before_failure' = Len(sun_positions)
            /\ sun_data' = ExceptionResult(sun_positions)
            /\ pc' = "report_sun"
            /\ UNCHANGED << date_obj, current_time, sunset_time, sun_positions >>
    /\ UNCHANGED << env_vars, config_vars, altitude, azimuth, alt_calls, az_calls,
                    eph_failed, shadow_data, shadow_coordinates, irradiance, E_clear,
                    result, exit_code, uncaught, plotted, report_lines >>

\* altitude = get_altitude(latitude, longitude, current_time): a value, or
\* an exception, which the handler turns into the empty result.
GetAltitude ==
    /\ pc = "sampler_altitude"
    /\ alt_calls' = alt_calls + 1
    /\ \/ /\ altitude' = get_altitude(eph, latitude, longitude, current_time)
          /\ pc' = "sampler_azimuth"
          /\ UNCHANGED << eph_failed, samples_before_failure, sun_data >>
       \/ /\ eph_failed' = TRUE
          /\ samples_before_failure' = Len(sun_positions)
          /\ sun_data' = ExceptionResult(sun_positions)
          /\ pc' = "report_sun"
          /\ UNCHANGED altitude
    /\ UNCHANGED << env_vars, config_vars, date_obj, current_time, sunset_time,
                    sun_positions, azimuth, az_calls, parse_failed, shadow_data,
                    shadow_coordinates, irradiance, E_clear, result, exit_code,
                    uncaught, stages, plotted, report_lines >>

GetAzimuth ==
    /\ pc = "sampler_azimuth"
    /\ az_calls' = az_calls + 1
    /\ \/ /\ azimuth' = get_azimuth(eph, latitude, longitude, current_time)
          /\ pc' = "sampler_append"
          /\ UNCHANGED << eph_failed, samples_before_failure, sun_data >>
       \/ /\ eph_failed' = TRUE
          /\ samples_before_failure' = Len(sun_positions)
          /\ sun_data' = ExceptionResult(sun_positions)
          /\ pc' = "report_sun"
          /\ UNCHANGED azimuth
    /\ UNCHANGED << env_vars, config_vars, date_obj, current_time, sunset_time,
                    sun_positions, altitude, alt_calls, parse_failed, shadow_data,
                    shadow_coordinates, irradiance, E_clear, result, exit_code,
                    uncaught, stages, plotted, report_lines >>

\* sun_positions.append(...); current_time += timedelta(minutes=10); and
\* the loop's test.
AppendSample ==
    /\ pc = "sampler_append"
    /\ sun_positions' = Append(sun_positions,
                               [time |-> Strftime(date_obj[1], current_time),
                                altitude |-> altitude, azimuth |-> azimuth])
    /\ current_time' = current_time + StepMinutes
    /\ pc' = IF LoopCondition(current_time + StepMinutes, sunset_time)
             THEN "sampler_altitude" ELSE "sampler_return"
    /\ UNCHANGED << env_vars, config_vars, date_obj, sunset_time, altitude, azimuth,
                    alt_calls, az_calls, eph_failed, parse_failed,
                    samples_before_failure, data_vars, result, exit_code, uncaught,
                    stages, plotted, report_lines >>

\* return sun_positions
SamplerReturn ==
    /\ pc = "sampler_return"
    /\ sun_data' = sun_positions
    /\ pc' = "report_sun"
    /\ UNCHANGED << env_vars, config_vars, sampler_vars, shadow_data,
                    shadow_coordinates, irradiance, E_clear, result, exit_code,
                    uncaught, stages, plotted, report_lines >>

(***************************************************************************)
(* The driver after the sampler: each stage, its report, the plot.         *)
(***************************************************************************)
\* format(value, ".2f") raises TypeError when value is None.
ShadowLineRaises(entry) ==
    entry.shadow_length = None \/ entry.shadow_direction = None

CoordinateLineRaises(entry) ==
    entry.x1 = None \/ entry.y1 = None \/ entry.x2 = None \/ entry.y2 = None

\* Mutant: the report reads the first record without the "if shadow_data:"
\* guard.
ReportShadowRaisesUnguarded(data) ==
    data = << >> \/ \E i \in 1..Len(data) : ShadowLineRaises(data[i])

\* if shadow_data: for entry in shadow_data: print(f"...{:.2f}...")
ReportShadowRaises(data) ==
    \E i \in 1..Len(data) : ShadowLineRaises(data[i])

ReportCoordinatesRaises(data) ==
    \E i \in 1..Len(data) : CoordinateLineRaises(data[i])

\* The lines printed before the first record whose line raises.
ShadowLinesPrinted(data) ==
    Cardinality({ i \in 1..Len(data) : \A j \in 1..i : ~ShadowLineRaises(data[j]) })

CoordinateLinesPrinted(data) ==
    Cardinality({ i \in 1..Len(data) : \A j \in 1..i : ~CoordinateLineRaises(data[j]) })

\* if sun_data: one line per sample (altitude and azimuth are numbers).
ReportSun ==
    /\ pc = "report_sun"
    /\ report_lines' = report_lines + Len(sun_data)
    /\ pc' = "calc_shadow"
    /\ UNCHANGED << env_vars, config_vars, sampler_vars, data_vars, result,
                    exit_code, uncaught, stages, plotted >>

CalcShadow ==
    /\ pc = "calc_shadow"
    /\ shadow_data' = calculate_shadow(sun_data, pole_height)
    /\ stages' = stages \cup {"shadow"}
    /\ pc' = "report_shadow"
    /\ UNCHANGED << env_vars, config_vars, sampler_vars, sun_data, shadow_coordinates,
                    irradiance, E_clear, result, exit_code, uncaught, plotted,
                    report_lines >>

ReportShadow ==
    /\ pc = "report_shadow"
    /\ report_lines' = report_lines + ShadowLinesPrinted(shadow_data)
    /\ IF ReportShadowRaises(shadow_data)
       THEN uncaught' = TRUE /\ exit_code' = 1 /\ pc' = "exit"
       ELSE UNCHANGED << uncaught, exit_code >> /\ pc' = "calc_coordinates"
    /\ UNCHANGED << env_vars, config_vars, sampler_vars, data_vars, result, stages,
                    plotted >>

CalcCoordinates ==
    /\ pc = "calc_coordinates"
    /\ shadow_coordinates' = calculate_shadow_coordinates(shadow_data)
    /\ stages' = stages \cup {"coordinates"}
    /\ pc' = "report_coordinates"
    /\ UNCHANGED << env_vars, config_vars, sampler_vars, sun_data, shadow_data,
                    irradiance, E_clear, result, exit_code, uncaught, plotted,
                    report_lines >>

ReportCoordinates ==
    /\ pc = "report_coordinates"
    /\ report_lines' = report_lines + CoordinateLinesPrinted(shadow_coordinates)
    /\ IF ReportCoordinatesRaises(shadow_coordinates)
       THEN uncaught' = TRUE /\ exit_code' = 1 /\ pc' = "exit"
       ELSE UNCHANGED << uncaught, exit_code >> /\ pc' = "calc_irradiance"
    /\ UNCHANGED << env_vars, config_vars, sampler_vars, data_vars, result, stages,
                    plotted >>

\* irradiance = calculate_irradiance(sun_data): E_clear keeps its default.
CalcIrradiance ==
    /\ pc = "calc_irradiance"
    /\ irradiance' = calculate_irradiance(sun_data, E_clear)
    /\ stages' = stages \cup {"irradiance"}
    /\ pc' = "report_irradiance"
    /\ UNCHANGED << env_vars, config_vars, sampler_vars, sun_data, shadow_data,
                    shadow_coordinates, E_clear, result, exit_code, uncaught, plotted,
                    report_lines >>

\* Both irradiance fields are numbers in every record.
ReportIrradiance ==
    /\ pc = "report_irradiance"
    /\ report_lines' = report_lines + Len(irradiance)
    /\ pc' = "plot"
    /\ UNCHANGED << env_vars, config_vars, sampler_vars, data_vars, result,
                    exit_code, uncaught, stages, plotted >>

\* plot_shadow_pattern(shadow_coordinates), the last statement: the process
\* then ends with code 0.  The plot skips the records that hold a None.
Plot ==
    /\ pc = "plot"
    /\ plotted' = Append(plotted, shadow_coordinates)
    /\ stages' = stages \cup {"plot"}
    /\ exit_code' = 0
    /\ pc' = "exit"
    /\ UNCHANGED << env_vars, config_vars, sampler_vars, data_vars, result, uncaught,
                    report_lines >>

(***************************************************************************)
(* Spec: one run of the driver.                                            *)
(***************************************************************************)
InitIdle ==
    /\ site_name = ""
    /\ latitude = 0
    /\ longitude = 0
    /\ date = <<2023, 1, 1>>
    /\ pole_width = 0
    /\ result = FALSE
    /\ exit_code = -1
    /\ uncaught = FALSE
    /\ shadow_data = << >>
    /\ shadow_coordinates = << >>
    /\ irradiance = << >>
    /\ stages = {}
    /\ plotted = << >>
    /\ report_lines = 0
    /\ date_obj = None
    /\ current_time = 0
    /\ sunset_time = 0
    /\ sun_positions = << >>
    /\ altitude = 0
    /\ azimuth = 0
    /\ alt_calls = 0
    /\ az_calls = 0
    /\ eph_failed = FALSE
    /\ parse_failed = FALSE
    /\ samples_before_failure = 0

Init ==
    /\ InitIdle
    /\ config_file \in ConfigFiles
    /\ eph \in EphemerisProfiles
    /\ pole_height = 0
    /\ sun_data = << >>
    /\ E_clear = EClearDefault
    /\ pc = "init"

Next ==
    \/ InitializeConfiguration
    \/ CheckResult
    \/ ParseDate
    \/ GetAltitude
    \/ GetAzimuth
    \/ AppendSample
    \/ SamplerReturn
    \/ ReportSun
    \/ CalcShadow
    \/ ReportShadow
    \/ CalcCoordinates
    \/ ReportCoordinates
    \/ CalcIrradiance
    \/ ReportIrradiance
    \/ Plot

Spec == Init /\ [][Next]_vars

(***************************************************************************)
(* SpecStages: the pure stages applied to any bounded sample sequence, the *)
(* shadow chain and the irradiance in either order.                        *)
(***************************************************************************)
\* Altitudes within [-90, 90], among them 0 and the smallest positive one.
AltitudeInputs == { Deg(-90), Deg(-5), 0, 1, Deg(30), Deg(90) }

\* Azimuths inside and outside [0, 360), among them the float next below -180.
AzimuthInputs == { Deg(90), Deg(-90), Deg(450), Deg(-180) - 1 }

PoleHeightInputs == { 10 * UnitsPerMeter, 0 }

EClearInputs == { EClearDefault, 0 }

StageDate == <<2025, 1, 1>>

SampleSequences ==
    UNION { { [i \in 1..n |->
                 [time |-> Strftime(StageDate, SunriseHour * 60 + StepMinutes * (i - 1)),
                  altitude |-> f[i][1], azimuth |-> f[i][2]]] :
              f \in [1..n -> AltitudeInputs \X AzimuthInputs] } : n \in 0..MaxLen }

InitStages ==
    /\ InitIdle
    /\ config_file = [kind |-> "object", json |-> << >>]
    /\ eph \in { [peak |-> 80, drop |-> 1, az_base |-> 90] }
    /\ pole_height \in PoleHeightInputs
    /\ sun_data \in SampleSequences
    /\ E_clear \in EClearInputs
    /\ pc = "stages"

ApplyShadow ==
    /\ pc = "stages"
    /\ "shadow" \notin stages
    /\ shadow_data' = calculate_shadow(sun_data, pole_height)
    /\ stages' = stages \cup {"shadow"}
    /\ UNCHANGED << env_vars, config_vars, sampler_vars, sun_data, shadow_coordinates,
                    irradiance, E_clear, pc, result, exit_code, uncaught, plotted,
                    report_lines >>

ApplyCoordinates ==
    /\ pc = "stages"
    /\ "shadow" \in stages
    /\ "coordinates" \notin stages
    /\ shadow_coordinates' = calculate_shadow_coordinates(shadow_data)
    /\ stages' = stages \cup {"coordinates"}
    /\ UNCHANGED << env_vars, config_vars, sampler_vars, sun_data, shadow_data,
                    irradiance, E_clear, pc, result, exit_code, uncaught, plotted,
                    report_lines >>

ApplyIrradiance ==
    /\ pc = "stages"
    /\ "irradiance" \notin stages
    /\ irradiance' = calculate_irradiance(sun_data, E_clear)
    /\ stages' = stages \cup {"irradiance"}
    /\ UNCHANGED << env_vars, config_vars, sampler_vars, sun_data, shadow_data,
                    shadow_coordinates, E_clear, pc, result, exit_code, uncaught,
                    plotted, report_lines >>

NextStages == ApplyShadow \/ ApplyCoordinates \/ ApplyIrradiance

SpecStages == InitStages /\ [][NextStages]_vars

(***************************************************************************)
(* Properties.                                                             *)
(***************************************************************************)
Indices == 1..Len(sun_data)

\* calculate_sun_positions has returned to the driver.
SamplerReturned ==
    /\ "sampler" \in stages
    /\ pc \notin {"sampler_parse", "sampler_altitude", "sampler_azimuth",
                  "sampler_append", "sampler_return"}

AllStagesApplied == {"shadow", "coordinates", "irradiance"} \subseteq stages

ShadowAbsent(i) ==
    shadow_data[i].shadow_length = None /\ shadow_data[i].shadow_direction = None

TipAbsent(i) ==
    shadow_coordinates[i].x2 = None /\ shadow_coordinates[i].y2 = None

Dark(i) ==
    irradiance[i].E_outside_shadow = 0 /\ irradiance[i].E_inside_shadow = 0

\* C1 (SpecStages).  Horizon consistency: with the default clear-sky
\* constant, for every sample the four conditions are equivalent: altitude
\* <= 0; shadow_length and shadow_direction both None; x2 and y2 both None;
\* E_outside_shadow = E_inside_shadow = 0.  shadow_length and
\* shadow_direction are both present or both absent.
HorizonConsistency ==
    (AllStagesApplied /\ E_clear = EClearDefault) =>
        \A i \in Indices :
            /\ (sun_data[i].altitude <= 0) <=> ShadowAbsent(i)
            /\ ShadowAbsent(i) <=> TipAbsent(i)
            /\ TipAbsent(i) <=> Dark(i)
            /\ (shadow_data[i].shadow_length = None)
                   <=> (shadow_data[i].shadow_direction = None)

\* A sample at the horizon with no shadow beside a sample above it with one.
HorizonConsistencyWitness ==
    /\ AllStagesApplied
    /\ E_clear = EClearDefault
    /\ Len(sun_data) = 2
    /\ sun_data[1].altitude = 0 /\ ShadowAbsent(1) /\ TipAbsent(1) /\ Dark(1)
    /\ sun_data[2].altitude > 0 /\ ~ShadowAbsent(2) /\ ~TipAbsent(2) /\ ~Dark(2)

Minutes(t) == t.hh * 60 + t.mm

\* C2 (Spec).  For a valid date and a collaborator that never raises,
\* calculate_sun_positions returns exactly 73 samples: the first at 06:00:00,
\* the last at 18:00:00 of that date, consecutive samples 10 minutes apart in
\* ascending order, after 73 get_altitude and 73 get_azimuth calls.
SampleCount ==
    (SamplerReturned /\ StrptimeOk(date) /\ ~eph_failed) =>
        /\ Len(sun_data) = 73
        /\ sun_data[1].time = [date |-> date, hh |-> 6, mm |-> 0, ss |-> 0]
        /\ sun_data[73].time = [date |-> date, hh |-> 18, mm |-> 0, ss |-> 0]
        /\ \A i \in 1..(Len(sun_data) - 1) :
               /\ sun_data[i + 1].time.date = sun_data[i].time.date
               /\ sun_data[i + 1].time.ss = sun_data[i].time.ss
               /\ Minutes(sun_data[i + 1].time) = Minutes(sun_data[i].time) + 10
        /\ alt_calls = 73
        /\ az_calls = 73

\* The sampler has returned the whole day of the last valid date.
SampleCountWitness ==
    /\ SamplerReturned
    /\ date = <<9999, 12, 31>>
    /\ ~eph_failed
    /\ Len(sun_data) = 73
    /\ pc = "report_sun"

\* C3 (Spec).  Degrade to empty, all or nothing: when strptime or the
\* collaborator raises, at the first, a middle or the last timestamp,
\* calculate_sun_positions returns the empty list, never the samples
\* collected so far, and the driver goes on; the returned list has length 0
\* or 73.
DegradeToEmpty ==
    SamplerReturned =>
        /\ Len(sun_data) \in {0, 73}
        /\ ~StrptimeOk(date) => parse_failed
        /\ (parse_failed \/ eph_failed) => sun_data = << >>
        /\ pc = "report_sun" => (~uncaught /\ exit_code = -1)

\* The collaborator raised in the middle of the day, 36 samples collected.
DegradeToEmptyWitness ==
    /\ SamplerReturned
    /\ eph_failed
    /\ samples_before_failure = 36
    /\ sun_data = << >>
    /\ pc = "report_sun"

Aligned(data) ==
    /\ Len(data) = Len(sun_data)
    /\ \A i \in Indices : data[i].time = sun_data[i].time

\* C4 (SpecStages).  Time alignment: the shadow, segment and irradiance
\* sequences have the length of the sample sequence and carry its time
\* values index by index, the records without a shadow included.
TimeAlignment ==
    /\ "shadow" \in stages => Aligned(shadow_data)
    /\ "coordinates" \in stages => Aligned(shadow_coordinates)
    /\ "irradiance" \in stages => Aligned(irradiance)

\* Two samples at different times, the first without a shadow.
TimeAlignmentWitness ==
    /\ AllStagesApplied
    /\ Len(sun_data) = 2
    /\ sun_data[1].altitude < 0
    /\ sun_data[2].altitude > 0
    /\ sun_data[1].time # sun_data[2].time
    /\ shadow_coordinates[1].time = sun_data[1].time
    /\ shadow_coordinates[2].time = sun_data[2].time

\* C5 as claimed (SpecStages): every segment, of a present or an absent
\* shadow record, has x1 = 0 and y1 = 0, and x2, y2 absent when
\* shadow_length is absent.
SegmentBaseAlwaysZero ==
    "coordinates" \in stages =>
        \A i \in Indices :
            /\ shadow_coordinates[i].x1 = Some(0)
            /\ shadow_coordinates[i].y1 = Some(0)
            /\ shadow_data[i].shadow_length = None => TipAbsent(i)

\* C5 as amended (SpecStages): a segment of a present shadow record has
\* x1 = 0, y1 = 0 and x2, y2 present; a segment of an absent shadow record
\* has x1, y1, x2 and y2 all absent.
SegmentBase ==
    "coordinates" \in stages =>
        \A i \in Indices :
            IF shadow_data[i].shadow_length # None
            THEN /\ shadow_coordinates[i].x1 = Some(0)
                 /\ shadow_coordinates[i].y1 = Some(0)
                 /\ shadow_coordinates[i].x2 # None
                 /\ shadow_coordinates[i].y2 # None
            ELSE /\ shadow_coordinates[i].x1 = None
                 /\ shadow_coordinates[i].y1 = None
                 /\ shadow_coordinates[i].x2 = None
                 /\ shadow_coordinates[i].y2 = None

\* A projected sequence holding a segment of each kind.
SegmentBaseWitness ==
    /\ "coordinates" \in stages
    /\ Len(sun_data) = 2
    /\ shadow_data[1].shadow_length # None
    /\ shadow_coordinates[1].x1 = Some(0)
    /\ shadow_data[2].shadow_length = None
    /\ shadow_coordinates[2].x1 = None

\* C6 as claimed (Spec).  The process ends with code 1, no stage invoked,
\* when initialize_configuration fails; in every other run, whatever the
\* sampler returned, all stages run, plot_shadow_pattern gets the segments
\* and the process ends with code 0.
ExitCodeContract ==
    pc = "exit" =>
        IF result
        THEN /\ exit_code = 0
             /\ stages = {"sampler", "shadow", "coordinates", "irradiance", "plot"}
             /\ plotted = << shadow_coordinates >>
        ELSE /\ exit_code = 1
             /\ stages = {}

\* C7 as claimed (Spec).  Once initialize_configuration has returned True,
\* pole_height > 0 and pole_width > 0; and no step other than
\* initialize_configuration writes the configuration globals.
ConfigurationPositive ==
    /\ [](result => (pole_height > 0 /\ pole_width > 0))
    /\ [][pc # "init" => UNCHANGED config_vars]_vars

\* C8 (SpecStages).  Irradiance ordering: 0 <= E_inside_shadow <=
\* E_outside_shadow for every sample; for altitude > 0, E_inside_shadow is
\* 0.15 * E_clear whatever the altitude and E_outside_shadow is
\* E_clear * sin(altitude) + E_inside_shadow.
IrradianceOrdering ==
    "irradiance" \in stages =>
        \A i \in Indices :
            /\ 0 <= irradiance[i].E_inside_shadow
            /\ irradiance[i].E_inside_shadow <= irradiance[i].E_outside_shadow
            /\ sun_data[i].altitude > 0 =>
                   /\ 100 * irradiance[i].E_inside_shadow = 15 * E_clear * TrigScale
                   /\ irradiance[i].E_outside_shadow =
                          E_clear * SinDeg(sun_data[i].altitude)
                              + irradiance[i].E_inside_shadow

\* Two samples above the horizon at different altitudes, the same diffuse
\* irradiance in the shadow and more outside it.
IrradianceOrderingWitness ==
    /\ "irradiance" \in stages
    /\ E_clear = EClearDefault
    /\ Len(sun_data) = 2
    /\ sun_data[1].altitude = Deg(30)
    /\ sun_data[2].altitude = Deg(90)
    /\ irradiance[1].E_inside_shadow = irradiance[2].E_inside_shadow
    /\ irradiance[1].E_inside_shadow < irradiance[1].E_outside_shadow
    /\ irradiance[1].E_outside_shadow < irradiance[2].E_outside_shadow

\* C9 as claimed (SpecStages).  Direction opposition: every present
\* shadow_direction is (azimuth + 180) mod 360 and lies in [0, 360), for
\* any azimuth, negative or beyond 360 included.
DirectionOpposition ==
    "shadow" \in stages =>
        \A i \in Indices :
            shadow_data[i].shadow_direction # None =>
                /\ shadow_data[i].shadow_direction[1]
                       = (sun_data[i].azimuth + Deg(180)) % Deg(360)
                /\ 0 <= shadow_data[i].shadow_direction[1]
                /\ shadow_data[i].shadow_direction[1] < Deg(360)

\* C10 (Spec).  Ephemeris-failure path: once the configuration has loaded
\* and calculate_sun_positions has returned the empty list, the shadow,
\* segment and irradiance sequences are empty, no per-record line is
\* printed, no exception goes uncaught, and the run ends with code 0 after
\* one plot_shadow_pattern call, made with the empty list.
EmptyDayPath ==
    (result /\ SamplerReturned /\ sun_data = << >>) =>
        /\ shadow_data = << >>
        /\ shadow_coordinates = << >>
        /\ irradiance = << >>
        /\ report_lines = 0
        /\ ~uncaught
        /\ pc # "exit" => (exit_code = -1 /\ plotted = << >>)
        /\ pc = "exit" =>
               /\ exit_code = 0
               /\ plotted = << << >> >>
               /\ stages = {"sampler", "shadow", "coordinates", "irradiance", "plot"}

\* The run has ended after the collaborator raised at the last timestamp.
EmptyDayPathWitness ==
    /\ pc = "exit"
    /\ result
    /\ eph_failed
    /\ samples_before_failure = 72
    /\ sun_data = << >>
    /\ plotted = << << >> >>
    /\ exit_code = 0

=============================================================================
